---- MODULE Spec2Model ----
(***************************************************************************)
(* The property service of main.py: a FastAPI application over two SQLite  *)
(* tables, properties and property_change_logs.  Each request gets its own *)
(* SQLAlchemy session from get_db; the handlers are coroutines of one      *)
(* event loop.  The model keeps the committed content of the two tables,   *)
(* each request's session, and the coroutine the event loop is running.    *)
(***************************************************************************)
EXTENDS Integers, Sequences, FiniteSets, TLC

\* Bounds of the model.
MaxProps == 2      \* create_property is not started beyond this many rows
MaxLogs == 2       \* update_property is not started beyond this many log rows

\* Requests in flight: one at a time, or two at once.
Sequential == {1}
Concurrent == {1, 2}

VARIABLES
    props,      \* table properties, in rowid order: a sequence of column records
    logs,       \* table property_change_logs, in rowid order
    clock,      \* datetime.utcnow, read when a properties row is inserted
    created,    \* history: the column record each property was inserted with
    slots,      \* the request slots the server is serving
    pc,         \* per slot: "idle", "open", "commit", "responded"
    req,        \* per slot: the request being handled
    sess,       \* per slot: the session's loaded object and pending rows
    resp,       \* per slot: the response sent
    loop        \* the slot whose coroutine holds the event loop, 0 when free

vars == <<props, logs, clock, created, slots, pc, req, sess, resp, loop>>

--------------------------------------------------------------------------
\* The schema.

\* RealEstateModel's fields in declaration order: the order of .dict().items()
FieldOrder ==
    <<"name", "description", "image", "location", "price", "address",
      "area", "rooms", "bathrooms", "garage", "is_sold">>

ModelFields == {FieldOrder[i] : i \in 1..Len(FieldOrder)}

\* Columns of table properties
Columns == ModelFields \cup {"id", "created_at"}

IntColumns == {"area", "rooms", "bathrooms"}
BoolColumns == {"garage", "is_sold"}

\* Request bodies: every field but is_sold is required.
PriceVals == {"100", "120"}

RequiredPart ==
    [name : {"A"}, description : {"d"}, image : {"i"}, location : {"l"},
     price : PriceVals, address : {"a"}, area : {50}, rooms : {3},
     bathrooms : {1}, garage : BOOLEAN]

RealEstateModel ==
    RequiredPart \cup {r @@ [is_sold |-> b] : r \in RequiredPart, b \in BOOLEAN}

\* The bodies create_property is given here: the listing starts unsold or
\* sold, at price "100" and without garage.
CreateBodies == {r \in RealEstateModel : r.price = "100" /\ ~r.garage}

\* property.dict(): unset fields take their default
dict(body) ==
    IF "is_sold" \in DOMAIN body THEN body ELSE body @@ [is_sold |-> FALSE]

\* updated_property.dict(exclude_unset=True)
dict_with_defaults(body) == dict(body)

dict_exclude_unset(body) == body

\* The Boolean column type binds True/False as 1/0 and reads them back.
ToCol(f, v) == IF f \in BoolColumns THEN (IF v THEN 1 ELSE 0) ELSE v
FromCol(f, c) == IF f \in BoolColumns THEN c = 1 ELSE c

\* An ORM object loaded from a row
Load(row) == [f \in DOMAIN row |-> FromCol(f, row[f])]

\* Python's str() on a value of the field's type
str_json(f, v) ==
    IF f \in BoolColumns THEN (IF v THEN "true" ELSE "false")
    ELSE IF f \in IntColumns THEN ToString(v)
    ELSE v

str(f, v) ==
    IF f \in BoolColumns THEN (IF v THEN "True" ELSE "False")
    ELSE IF f \in IntColumns THEN ToString(v)
    ELSE v

\* SQLite gives a new row the largest rowid plus one
NextId(tbl) ==
    IF tbl = <<>> THEN 1
    ELSE 1 + CHOOSE m \in {tbl[i].id : i \in 1..Len(tbl)} :
                 \A i \in 1..Len(tbl) : tbl[i].id <= m

--------------------------------------------------------------------------
\* Queries.

\* db.query(Property).filter(Property.id == property_id).first(): the index
\* of the row, 0 for None
first_unfiltered(tbl, property_id) == IF tbl = <<>> THEN 0 ELSE 1

first(tbl, property_id) ==
    IF \E i \in 1..Len(tbl) : tbl[i].id = property_id
    THEN CHOOSE i \in 1..Len(tbl) : tbl[i].id = property_id
    ELSE 0

\* .filter(PropertyChangeLog.property_id == property_id): the indexes kept
filter_none(tbl, property_id) == 1..Len(tbl)

filter(tbl, property_id) ==
    {i \in 1..Len(tbl) : tbl[i].property_id = property_id}

\* .all() of a query without ORDER BY: the rows in an order the store picks
all(tbl, idx) ==
    {[k \in 1..Cardinality(idx) |-> tbl[p[k]]] :
        p \in {q \in [1..Cardinality(idx) -> idx] :
                  \A a, b \in 1..Cardinality(idx) : a # b => q[a] # q[b]}}

--------------------------------------------------------------------------
\* update_property's loop (lines 109-113).

\* value != getattr(db_property, field)
differs_always(obj, field, value) == TRUE

differs(obj, field, value) == value # obj[field]

hasattr(obj, field) == field \in DOMAIN obj

\* PropertyChangeLog(...) of line 111, its id not yet assigned
PropertyChangeLog_swapped(obj, field, value) ==
    [property_id |-> obj.id, changed_field |-> field,
     old_value |-> str(field, value), new_value |-> str(field, obj[field])]

PropertyChangeLog(obj, field, value) ==
    [property_id |-> obj.id, changed_field |-> field,
     old_value |-> str(field, obj[field]), new_value |-> str(field, value)]

\* setattr(db_property, field, value)
setattr_lost(obj, field, value) == obj

setattr(obj, field, value) == [obj EXCEPT ![field] = value]

\* The fields of update_data in iteration order
items(update_data) ==
    SelectSeq(FieldOrder, LAMBDA f : f \in DOMAIN update_data)

RECURSIVE for_loop(_, _, _)
for_loop(its, update_data, s) ==
    IF its = <<>> THEN s
    ELSE LET field == Head(its)
             value == update_data[field]
         IN  IF hasattr(s.obj, field) /\ differs(s.obj, field, value)
             THEN for_loop(Tail(its), update_data,
                      [s EXCEPT
                          !.new = Append(@, PropertyChangeLog(s.obj, field, value)),
                          !.obj = setattr(s.obj, field, value)])
             ELSE for_loop(Tail(its), update_data, s)

\* The session after lines 104-113: the loaded object as modified, the
\* attributes whose value is no longer the loaded one, the rows added
diff(row, update_data) ==
    LET s == for_loop(items(update_data), update_data,
                      [obj |-> Load(row), new |-> <<>>])
    IN  [pid |-> row.id, obj |-> s.obj, new |-> s.new,
         dirty |-> {f \in ModelFields : s.obj[f] # Load(row)[f]}]

NoSession == [pid |-> 0, obj |-> <<>>, new |-> <<>>, dirty |-> {}]

--------------------------------------------------------------------------
\* db.commit(): the flush is one UPDATE of the dirty attributes, then one
\* INSERT per added row in the order of db.add, then COMMIT.

Statements(s) == (IF s.dirty = {} THEN 0 ELSE 1) + Len(s.new)

\* UPDATE properties SET <dirty columns> WHERE id = pid
SqlUpdate(tbl, s) ==
    [i \in 1..Len(tbl) |->
        IF tbl[i].id = s.pid
        THEN [f \in DOMAIN tbl[i] |->
                 IF f \in s.dirty THEN ToCol(f, s.obj[f]) ELSE tbl[i][f]]
        ELSE tbl[i]]

\* INSERT INTO property_change_logs
SqlInsert(tbl, r) == Append(tbl, r @@ [id |-> NextId(tbl)])

RECURSIVE InsertAll(_, _)
InsertAll(tbl, rows) ==
    IF rows = <<>> THEN tbl
    ELSE InsertAll(SqlInsert(tbl, Head(rows)), Tail(rows))

\* The tables after the first n statements of the flush
Exec(db, s, n) ==
    LET u == IF s.dirty = {} THEN 0 ELSE 1
    IN  [props |-> IF n >= 1 /\ u = 1 THEN SqlUpdate(db.props, s) ELSE db.props,
         logs |-> IF n > u THEN InsertAll(db.logs, SubSeq(s.new, 1, n - u))
                  ELSE db.logs]

\* sessionmaker(autocommit=False, ...): the statements of one flush belong to
\* one transaction
autocommit_on == TRUE

autocommit == FALSE

\* The committed tables after db.commit().  failed = 0: it succeeds.
\* failed = k: the k-th statement fails (Statements + 1 is COMMIT itself); the
\* exception leaves the handler and get_db closes the session, which rolls
\* the transaction back.
commit(db, s, failed) ==
    IF failed = 0 THEN Exec(db, s, Statements(s))
    ELSE IF autocommit THEN Exec(db, s, failed - 1)
    ELSE db

\* update_property is a coroutine without an await: once started it holds
\* the event loop until it returns.
awaits_before_commit == TRUE

awaits == FALSE

--------------------------------------------------------------------------
DB == [props |-> props, logs |-> logs]

\* The row INSERT INTO properties writes for Property(**d): the id from the
\* store, created_at from the column default
PropertyRow(d, id, now) ==
    [f \in Columns |->
        IF f = "id" THEN id
        ELSE IF f = "created_at" THEN now
        ELSE ToCol(f, d[f])]

NoRequest == [op |-> "none", id |-> 0, body |-> <<>>]
NoResponse == [status |-> "none", body |-> <<>>]

\* No request in flight
Quiet ==
    /\ pc = [s \in Concurrent |-> "idle"]
    /\ req = [s \in Concurrent |-> NoRequest]
    /\ sess = [s \in Concurrent |-> NoSession]
    /\ resp = [s \in Concurrent |-> NoResponse]
    /\ loop = 0

\* The server starts on empty tables (Base.metadata.create_all)
Init ==
    /\ props = <<>>
    /\ logs = <<>>
    /\ clock = 1
    /\ created = <<>>
    /\ slots = Sequential
    /\ Quiet

\* Two clients at a store that holds one property, as create_property left it
InitConcurrent ==
    /\ \E body \in CreateBodies :
          /\ props = <<PropertyRow(dict(body), 1, 1)>>
          /\ created = props
    /\ logs = <<>>
    /\ clock = 2
    /\ slots = Concurrent
    /\ Quiet

\* Property ids a request may name: the stored ones and one more
Ids == 1..(Len(props) + 1)

\* get_db up to its yield: a request arrives and gets a session
get_db(s) ==
    /\ pc[s] = "idle"
    /\ pc' = [pc EXCEPT ![s] = "open"]
    /\ UNCHANGED <<props, logs, clock, created, slots, req, sess, resp, loop>>

\* get_db's finally: the session is closed after the response
close(s) ==
    /\ pc[s] = "responded"
    /\ pc' = [pc EXCEPT ![s] = "idle"]
    /\ req' = [req EXCEPT ![s] = NoRequest]
    /\ sess' = [sess EXCEPT ![s] = NoSession]
    /\ resp' = [resp EXCEPT ![s] = NoResponse]
    /\ UNCHANGED <<props, logs, clock, created, slots, loop>>

\* POST /properties.  failed: 0 none, 1 the INSERT or COMMIT, 2 db.refresh
create_property(s, body, failed) ==
    /\ pc[s] = "open"
    /\ loop = 0
    /\ Len(props) < MaxProps
    /\ LET row == PropertyRow(dict(body), NextId(props), clock)
       IN  /\ req' = [req EXCEPT ![s] = [op |-> "create", id |-> 0, body |-> body]]
           /\ IF failed = 1
              THEN /\ resp' = [resp EXCEPT ![s] =
                                 [status |-> "commit_failed", body |-> <<>>]]
                   /\ UNCHANGED <<props, created, clock>>
              ELSE /\ props' = Append(props, row)
                   /\ created' = Append(created, row)
                   /\ clock' = clock + 1
                   /\ resp' = [resp EXCEPT ![s] =
                                 IF failed = 2
                                 THEN [status |-> "refresh_failed", body |-> <<>>]
                                 ELSE [status |-> "ok", body |-> row.id]]
    /\ pc' = [pc EXCEPT ![s] = "responded"]
    /\ UNCHANGED <<logs, slots, sess, loop>>

\* PUT /properties/{property_id}, lines 104-113
update_property_diff(s, property_id, body) ==
    /\ pc[s] = "open"
    /\ loop = 0
    /\ Len(logs) < MaxLogs
    /\ req' = [req EXCEPT ![s] = [op |-> "update", id |-> property_id, body |-> body]]
    /\ LET i == first(props, property_id)
       IN  IF i = 0
           THEN /\ resp' = [resp EXCEPT ![s] =
                              [status |-> "NotFound", body |-> <<>>]]
                /\ pc' = [pc EXCEPT ![s] = "responded"]
                /\ UNCHANGED <<sess, loop>>
           ELSE /\ sess' = [sess EXCEPT ![s] =
                              diff(props[i], dict_exclude_unset(body))]
                /\ pc' = [pc EXCEPT ![s] = "commit"]
                /\ loop' = IF awaits THEN 0 ELSE s
                /\ UNCHANGED resp
    /\ UNCHANGED <<props, logs, clock, created, slots>>

\* PUT /properties/{property_id}, lines 115-117.  failed: 0 none, k the k-th
\* statement of the flush or COMMIT, Statements + 2 db.refresh
update_property_commit(s, failed) ==
    /\ pc[s] = "commit"
    /\ loop = (IF awaits THEN 0 ELSE s)
    /\ LET refresh == failed = Statements(sess[s]) + 2
           after == commit(DB, sess[s], IF refresh THEN 0 ELSE failed)
           i == first(after.props, sess[s].pid)
       IN  /\ props' = after.props
           /\ logs' = after.logs
           /\ resp' = [resp EXCEPT ![s] =
                         IF refresh THEN [status |-> "refresh_failed", body |-> <<>>]
                         ELSE IF failed # 0
                         THEN [status |-> "commit_failed", body |-> <<>>]
                         ELSE [status |-> "ok",
                               body |-> [f \in ModelFields |->
                                            Load(after.props[i])[f]]]]
    /\ pc' = [pc EXCEPT ![s] = "responded"]
    /\ loop' = 0
    /\ UNCHANGED <<clock, created, slots, req, sess>>

\* GET /properties/{property_id}/changes
read_property_changes(s, property_id) ==
    /\ pc[s] = "open"
    /\ loop = 0
    /\ req' = [req EXCEPT ![s] = [op |-> "changes", id |-> property_id, body |-> <<>>]]
    /\ \E property_changes \in all(logs, filter(logs, property_id)) :
          resp' = [resp EXCEPT ![s] =
                     IF Len(property_changes) = 0
                     THEN [status |-> "NotFound", body |-> <<>>]
                     ELSE [status |-> "ok", body |-> property_changes]]
    /\ pc' = [pc EXCEPT ![s] = "responded"]
    /\ UNCHANGED <<props, logs, clock, created, slots, sess, loop>>

Next ==
    \E s \in slots :
        \/ get_db(s)
        \/ close(s)
        \/ \E body \in CreateBodies, failed \in 0..2 : create_property(s, body, failed)
        \/ \E id \in Ids, body \in RealEstateModel : update_property_diff(s, id, body)
        \/ \E failed \in 0..(Statements(sess[s]) + 2) :
              update_property_commit(s, failed)
        \/ \E id \in Ids : read_property_changes(s, id)

\* Requests handled one at a time
Spec == Init /\ [][Next]_vars

\* Updates only
NextUpdates ==
    \E s \in slots :
        \/ get_db(s)
        \/ close(s)
        \/ \E id \in Ids, body \in RealEstateModel : update_property_diff(s, id, body)
        \/ \E failed \in 0..(Statements(sess[s]) + 2) :
              update_property_commit(s, failed)

\* Two update requests in flight
SpecConcurrent == InitConcurrent /\ [][NextUpdates]_vars

--------------------------------------------------------------------------
\* Properties of the service.

\* C1: a successful update of a stored property adds exactly one log row per
\* payload field whose value differs from the value stored just before the
\* update, each with the property's id, and no row for a field whose value
\* equals the stored one.
C1_RowPerDifferingField ==
    [][\A s \in slots :
          (pc[s] = "commit" /\ pc'[s] = "responded" /\ resp'[s].status = "ok") =>
             LET U == req[s].body
                 P == Load(props[CHOOSE i \in 1..Len(props) : props[i].id = req[s].id])
                 differing == {f \in DOMAIN U : U[f] # P[f]}
                 added == SubSeq(logs', Len(logs) + 1, Len(logs'))
             IN  /\ SubSeq(logs', 1, Len(logs)) = logs
                 /\ Len(added) = Cardinality(differing)
                 /\ \A k \in 1..Len(added) :
                       /\ added[k].property_id = req[s].id
                       /\ added[k].changed_field \in differing
                 /\ \A j, k \in 1..Len(added) :
                       j # k => added[j].changed_field # added[k].changed_field
      ]_vars

\* An update answered ok in which two payload fields differed from the stored
\* values and two rows were appended for them.
C1_Witness ==
    \E s \in slots :
        /\ pc[s] = "responded" /\ req[s].op = "update" /\ resp[s].status = "ok"
        /\ Len(sess[s].new) = 2
        /\ Len(logs) >= 2
        /\ logs[Len(logs)].property_id = req[s].id
        /\ logs[Len(logs) - 1].property_id = req[s].id

\* C2: the field assignments of an update and its log rows become visible
\* together: a step changes the tables only by one whole insert of a property
\* or by one whole update (every dirty attribute written and every added row
\* appended), and an update whose commit fails leaves both tables as they
\* were.
C2_AtomicUnit ==
    [][/\ (props' # props \/ logs' # logs) =>
            \E s \in slots :
                \/ /\ pc[s] = "open" /\ req'[s].op = "create"
                   /\ logs' = logs
                   /\ Len(props') = Len(props) + 1
                   /\ SubSeq(props', 1, Len(props)) = props
                \/ /\ pc[s] = "commit" /\ pc'[s] = "responded"
                   /\ Len(props') = Len(props)
                   /\ Len(logs') = Len(logs) + Len(sess[s].new)
                   /\ SubSeq(logs', 1, Len(logs)) = logs
                   /\ \A k \in 1..Len(sess[s].new) :
                         LET r == logs'[Len(logs) + k]
                             n == sess[s].new[k]
                         IN  /\ r.property_id = n.property_id
                             /\ r.changed_field = n.changed_field
                             /\ r.old_value = n.old_value
                             /\ r.new_value = n.new_value
                   /\ \A i \in 1..Len(props) :
                         IF props[i].id = sess[s].pid
                         THEN \A f \in Columns :
                                 props'[i][f] =
                                    IF f \in sess[s].dirty
                                    THEN ToCol(f, sess[s].obj[f])
                                    ELSE props[i][f]
                         ELSE props'[i] = props[i]
       /\ \A s \in slots :
             (pc[s] = "commit" /\ resp'[s].status = "commit_failed") =>
                 props' = props /\ logs' = logs
      ]_vars

\* An update with an attribute to write and a row to add whose commit failed.
C2_Witness ==
    \E s \in slots :
        /\ pc[s] = "responded" /\ req[s].op = "update"
        /\ resp[s].status = "commit_failed"
        /\ sess[s].dirty # {} /\ sess[s].new # <<>>

\* C3: an update naming an id that no stored property has is answered
\* NotFound, adds no log row and leaves every stored property as it was.
C3_UpdateNotFound ==
    [][\A s \in slots :
          (/\ pc[s] = "open" /\ pc'[s] # "open" /\ req'[s].op = "update"
           /\ ~\E i \in 1..Len(props) : props[i].id = req'[s].id) =>
             /\ pc'[s] = "responded"
             /\ resp'[s].status = "NotFound"
             /\ props' = props
             /\ logs' = logs
      ]_vars

\* An update of an absent id answered NotFound while a property is stored.
C3_Witness ==
    \E s \in slots :
        /\ pc[s] = "responded" /\ req[s].op = "update"
        /\ resp[s].status = "NotFound"
        /\ Len(props) >= 1
        /\ ~\E i \in 1..Len(props) : props[i].id = req[s].id

\* C4: with two update requests in flight, the steps of one do not interleave
\* with the other's: while one update is between its read and its commit no
\* other handler starts or commits, and every row an update commits carries
\* as old_value the value stored for the field just before that commit.
C4_UpdatesDoNotInterleave ==
    [][\A s \in slots :
          /\ pc[s] = "commit" =>
                \A t \in slots \ {s} :
                    /\ pc[t] # "commit"
                    /\ pc[t] = "open" => pc'[t] = "open"
          /\ (pc[s] = "commit" /\ pc'[s] = "responded") =>
                \A k \in (Len(logs) + 1)..Len(logs') :
                    \E i \in 1..Len(props) :
                        /\ props[i].id = logs'[k].property_id
                        /\ logs'[k].old_value =
                              str(logs'[k].changed_field,
                                  FromCol(logs'[k].changed_field,
                                          props[i][logs'[k].changed_field]))
      ]_vars

\* One request's update of a property is committed and its session still
\* open while another request's update of the same property is between its
\* read and its commit, with a row to add.
C4_Witness ==
    \E s, t \in slots :
        /\ s # t
        /\ pc[s] = "responded" /\ req[s].op = "update" /\ resp[s].status = "ok"
        /\ sess[s].new # <<>>
        /\ pc[t] = "commit" /\ req[t].id = req[s].id
        /\ sess[t].new # <<>>

C6_SecondUpdateIsNoOp ==
    \A s \in slots :
        (pc[s] = "responded" /\ req[s].op = "update" /\ resp[s].status = "ok") =>
            LET row == props[CHOOSE i \in 1..Len(props) : props[i].id = req[s].id]
                again == diff(row, dict_exclude_unset(req[s].body))
            IN  /\ again.new = <<>>
                /\ again.dirty = {}
                /\ commit(DB, again, 0) = DB

\* An update answered ok whose first application added rows.
C6_Witness ==
    \E s \in slots :
        /\ pc[s] = "responded" /\ req[s].op = "update" /\ resp[s].status = "ok"
        /\ sess[s].new # <<>>
        /\ logs # <<>>

\* C7: read_property_changes answers NotFound exactly when no log row has
\* the property id; otherwise it returns every log row of that property and
\* no row of another property.
C7_ChangesNotFoundIffNoRows ==
    \A s \in slots :
        (pc[s] = "responded" /\ req[s].op = "changes") =>
            LET rows == {logs[i] : i \in {j \in 1..Len(logs) :
                                             logs[j].property_id = req[s].id}}
            IN  /\ resp[s].status \in {"ok", "NotFound"}
                /\ resp[s].status = "NotFound" <=> rows = {}
                /\ resp[s].status = "ok" =>
                      /\ {resp[s].body[k] : k \in 1..Len(resp[s].body)} = rows
                      /\ Len(resp[s].body) = Cardinality(rows)

\* The changes of a stored property are returned while another stored
\* property has log rows of its own.
C7_Witness ==
    \E s \in slots :
        /\ pc[s] = "responded" /\ req[s].op = "changes" /\ resp[s].status = "ok"
        /\ \E i \in 1..Len(logs) : logs[i].property_id # req[s].id

\* C8 as stated: an update that turns garage from false to true records
\* old_value "false" and new_value "true", and one that changes price from
\* "100" to "120" records "100" and "120".
C8_LowercaseBooleans ==
    [][\A s \in slots :
          (pc[s] = "commit" /\ pc'[s] = "responded" /\ resp'[s].status = "ok") =>
             LET U == req[s].body
                 P == Load(props[CHOOSE i \in 1..Len(props) : props[i].id = req[s].id])
                 added == {logs'[k] : k \in (Len(logs) + 1)..Len(logs')}
             IN  /\ (~P.garage /\ U.garage) =>
                       \E r \in added : /\ r.changed_field = "garage"
                                        /\ r.old_value = "false"
                                        /\ r.new_value = "true"
                 /\ (P.price = "100" /\ U.price = "120") =>
                       \E r \in added : /\ r.changed_field = "price"
                                        /\ r.old_value = "100"
                                        /\ r.new_value = "120"
      ]_vars

\* C8 as amended: the values are written as str() writes them, booleans as
\* "False" and "True": turning garage from false to true records old_value
\* "False" and new_value "True"; changing price from "100" to "120" records
\* "100" and "120".
C8_PythonStrValues ==
    [][\A s \in slots :
          (pc[s] = "commit" /\ pc'[s] = "responded" /\ resp'[s].status = "ok") =>
             LET U == req[s].body
                 P == Load(props[CHOOSE i \in 1..Len(props) : props[i].id = req[s].id])
                 added == {logs'[k] : k \in (Len(logs) + 1)..Len(logs')}
             IN  /\ (~P.garage /\ U.garage) =>
                       \E r \in added : /\ r.changed_field = "garage"
                                        /\ r.property_id = req[s].id
                                        /\ r.old_value = "False"
                                        /\ r.new_value = "True"
                 /\ (P.price = "100" /\ U.price = "120") =>
                       \E r \in added : /\ r.changed_field = "price"
                                        /\ r.property_id = req[s].id
                                        /\ r.old_value = "100"
                                        /\ r.new_value = "120"
      ]_vars

\* A property created without garage was updated with garage true and price
\* "120", and both rows are in the log.
C8_Witness ==
    \E s \in slots :
        /\ pc[s] = "responded" /\ req[s].op = "update" /\ resp[s].status = "ok"
        /\ req[s].body.garage /\ req[s].body.price = "120"
        /\ \E i \in 1..Len(created) :
              created[i].id = req[s].id /\ created[i].garage = 0
        /\ \E j, k \in 1..Len(logs) :
              /\ logs[j].property_id = req[s].id /\ logs[j].changed_field = "garage"
              /\ logs[k].property_id = req[s].id /\ logs[k].changed_field = "price"

\* C9: an update leaves every field its payload omits at the stored value
\* and adds no row for it, and no step changes the id or created_at of a
\* stored property.
C9_OmittedFieldsUntouched ==
    [][/\ Len(props') >= Len(props)
       /\ \A i \in 1..Len(props) :
             /\ props'[i].id = props[i].id
             /\ props'[i].created_at = props[i].created_at
       /\ \A s \in slots :
             (pc[s] = "commit" /\ pc'[s] = "responded") =>
                \A f \in ModelFields \ DOMAIN req[s].body :
                    /\ \A i \in 1..Len(props) : props'[i][f] = props[i][f]
                    /\ \A k \in (Len(logs) + 1)..Len(logs') :
                          logs'[k].changed_field # f
      ]_vars

\* An update without is_sold, of a property stored as sold, that changed
\* other fields and left the property sold.
C9_Witness ==
    \E s \in slots :
        /\ pc[s] = "responded" /\ req[s].op = "update" /\ resp[s].status = "ok"
        /\ "is_sold" \notin DOMAIN req[s].body
        /\ sess[s].new # <<>>
        /\ \E i \in 1..Len(props) : props[i].id = req[s].id /\ props[i].is_sold = 1

\* C10: with requests handled one at a time, the log rows of each property
\* and field, in ascending log id order, form a chain: the first old_value is
\* the stringified value the field was created with, each later old_value is
\* the previous new_value, old_value and new_value differ in every row, and
\* the last new_value is the stringified stored value (which, without rows,
\* is the value at creation).
C10_ChangeChain ==
    /\ \A j, k \in 1..Len(logs) : j < k => logs[j].id < logs[k].id
    /\ Len(created) = Len(props)
    /\ \A i \in 1..Len(props), f \in ModelFields :
          LET chain == SelectSeq(logs, LAMBDA r : r.property_id = props[i].id
                                                  /\ r.changed_field = f)
              atCreation == str(f, FromCol(f, created[i][f]))
              stored == str(f, FromCol(f, props[i][f]))
          IN  IF chain = <<>> THEN stored = atCreation
              ELSE /\ chain[1].old_value = atCreation
                   /\ \A k \in 1..Len(chain) : chain[k].old_value # chain[k].new_value
                   /\ \A k \in 1..(Len(chain) - 1) :
                         chain[k + 1].old_value = chain[k].new_value
                   /\ chain[Len(chain)].new_value = stored

\* A field of one property was changed by two updates.
C10_Witness ==
    \E j, k \in 1..Len(logs) :
        /\ j < k
        /\ logs[j].property_id = logs[k].property_id
        /\ logs[j].changed_field = logs[k].changed_field
        /\ Len(props) = 2

====
